---------------------------- MODULE Spec2Model ----------------------------
(***************************************************************************)
(* GFE Volumes & Workflow Classifier (src/datatool.py).                    *)
(*                                                                         *)
(* The script is one sequential run: read the 'Report 1' sheet of every    *)
(* uploaded file, combine them, flag GFE rows, classify knowledge per row, *)
(* escalate it to the Product Event, resolve the workflow, escalate GFE,   *)
(* summarise per Product Event and pivot.                                  *)
(*                                                                         *)
(* Text cells are sequences of one-character strings, so that str.strip,   *)
(* str.title, str.upper and the substring test are computed, not assumed.  *)
(* An empty spreadsheet cell is pandas' NaN, and groupby, nunique,          *)
(* value_counts and transform treat it as pandas does by default           *)
(* (dropna=True; transform leaves NaN on the rows of no group).  A row of  *)
(* the model stands for `copies` identical consecutive spreadsheet rows.   *)
(***************************************************************************)
EXTENDS Integers, Sequences, FiniteSets, TLC

\* Most uploaded files in one run, and most rows (blocks) over all files.
MaxFiles == 2
MaxRows == 2

\* pandas' missing value in a key or label cell.
NaN == "NaN"
\* pandas' missing value in a text cell (no character is "NaN").
NaNText == <<NaN>>

LowerLetters == <<"a","b","c","d","e","f","g","h","i","j","k","l","m","n","o","p","q","r","s","t","u","v","w","x","y","z">>
UpperLetters == <<"A","B","C","D","E","F","G","H","I","J","K","L","M","N","O","P","Q","R","S","T","U","V","W","X","Y","Z">>

IsLower(c) == \E i \in 1..26 : LowerLetters[i] = c
IsUpper(c) == \E i \in 1..26 : UpperLetters[i] = c
IsCased(c) == IsLower(c) \/ IsUpper(c)
IsSpace(c) == c = " "

UpperChar(c) ==
    IF IsLower(c) THEN UpperLetters[CHOOSE i \in 1..26 : LowerLetters[i] = c] ELSE c
LowerChar(c) ==
    IF IsUpper(c) THEN LowerLetters[CHOOSE i \in 1..26 : UpperLetters[i] = c] ELSE c

\* str(val): a missing cell prints as "nan".
Str(val) == IF val = NaNText THEN <<"n","a","n">> ELSE val

\* str.upper()
StrUpper(s) == [i \in 1..Len(s) |-> UpperChar(s[i])]

\* str.strip(): drop leading and trailing white space.
Strip(s) ==
    LET keep == {i \in 1..Len(s) : ~IsSpace(s[i])}
    IN  IF keep = {} THEN <<>>
        ELSE SubSeq(s, CHOOSE i \in keep : \A j \in keep : i <= j,
                       CHOOSE i \in keep : \A j \in keep : i >= j)

\* str.title(): a cased character is upper-cased when the character before
\* it is not cased, lower-cased otherwise.
Title(s) ==
    [i \in 1..Len(s) |->
        IF i = 1 \/ ~IsCased(s[i - 1]) THEN UpperChar(s[i]) ELSE LowerChar(s[i])]

\* needle in hay
Contains(hay, needle) ==
    \E i \in 0..(Len(hay) - Len(needle)) : SubSeq(hay, i + 1, i + Len(needle)) = needle

(***************************************************************************)
(* STEP A keywords and STEP D region sets.                                 *)
(***************************************************************************)
gfe_keywords == { <<"F","o","l","l","o","w","-","u","p"," ","f","o","r"," ","P","r","o","d","/","I","n","f","o">>, <<"F","o","l","l","o","w"," ","U","p"," ","f","o","r"," ","I","n","f","o","r","m","a","t","i","o","n">> }

eu_countries == {
    <<"A","u","s","t","r","i","a">>, <<"B","e","l","g","i","u","m">>, <<"C","r","o","a","t","i","a">>, <<"C","y","p","r","u","s">>, <<"C","z","e","c","h"," ","R","e","p","u","b","l","i","c">>,
    <<"D","e","n","m","a","r","k">>, <<"F","i","n","l","a","n","d">>, <<"F","r","a","n","c","e">>, <<"G","e","r","m","a","n","y">>, <<"G","r","e","e","c","e">>, <<"H","u","n","g","a","r","y">>,
    <<"I","r","e","l","a","n","d">>, <<"I","t","a","l","y">>, <<"L","u","x","e","m","b","o","u","r","g">>, <<"N","e","t","h","e","r","l","a","n","d","s">>, <<"P","o","l","a","n","d">>,
    <<"P","o","r","t","u","g","a","l">>, <<"S","l","o","v","a","k","i","a">>, <<"S","p","a","i","n">>, <<"S","w","e","d","e","n">> }

greater_china_countries == {
    <<"C","h","i","n","a">>, <<"H","o","n","g"," ","K","o","n","g">>, <<"M","a","c","a","o">>, <<"T","a","i","w","a","n">>, <<"V","i","e","t"," ","N","a","m">> }

is_us_territory(country) == Title(Strip(country)) = <<"U","n","i","t","e","d"," ","S","t","a","t","e","s">>
is_eu(country) == Title(Strip(country)) \in eu_countries
is_canada(country) == Title(Strip(country)) = <<"C","a","n","a","d","a">>
is_japan(country) == Title(Strip(country)) = <<"J","a","p","a","n">>
is_greater_china(country) == Title(Strip(country)) \in greater_china_countries

is_fda_reportable(reportability_text) ==
    Contains(StrUpper(Str(reportability_text)), <<"U","S"," ","F","D","A"," ","-"," ","M","D","R",":"," ","M","A","L","F","U","N","C","T","I","O","N"," ","-"," ","R","E","P","O","R","T","A","B","L","E">>)

WellUnderstood == "Well Understood"
NotWellUnderstood == "Not Well Understood"

(***************************************************************************)
(* STEP E: the workflow of one row.                                        *)
(***************************************************************************)
\* Variant: rule 1 without its reportability test.
classify_pe_workflow_no_fda_test(row) ==
    LET country == Title(Strip(Str(row.CountryPE)))
        knowledge == row.PElevelKnowledgeClass
        us_terr == is_us_territory(country)
        eu == is_eu(country)
        canada == is_canada(country)
        japan == is_japan(country)
        gchina == is_greater_china(country)
    IN  IF us_terr /\ knowledge = WellUnderstood THEN 1
        ELSE IF knowledge = WellUnderstood /\ (eu \/ canada) THEN 2
        ELSE IF (us_terr \/ eu \/ canada) /\ knowledge = NotWellUnderstood THEN 3
        ELSE IF ~us_terr /\ ~eu /\ ~canada /\ ~japan /\ ~gchina THEN 4
        ELSE IF japan \/ gchina THEN 5
        ELSE 0

\* Variant: rule 3 without its region test.
classify_pe_workflow_rule3_any_region(row) ==
    LET country == Title(Strip(Str(row.CountryPE)))
        knowledge == row.PElevelKnowledgeClass
        rep_text == StrUpper(Str(row.Reportability))
        us_terr == is_us_territory(country)
        eu == is_eu(country)
        canada == is_canada(country)
        japan == is_japan(country)
        gchina == is_greater_china(country)
        fda_rep == is_fda_reportable(rep_text)
    IN  IF us_terr /\ ~fda_rep /\ knowledge = WellUnderstood THEN 1
        ELSE IF knowledge = WellUnderstood /\ ((us_terr /\ fda_rep) \/ eu \/ canada) THEN 2
        ELSE IF knowledge = NotWellUnderstood THEN 3
        ELSE IF ~us_terr /\ ~eu /\ ~canada /\ ~japan /\ ~gchina THEN 4
        ELSE IF japan \/ gchina THEN 5
        ELSE 0

\* Variant: rule 5 without Greater China.
classify_pe_workflow_japan_only(row) ==
    LET country == Title(Strip(Str(row.CountryPE)))
        knowledge == row.PElevelKnowledgeClass
        rep_text == StrUpper(Str(row.Reportability))
        us_terr == is_us_territory(country)
        eu == is_eu(country)
        canada == is_canada(country)
        japan == is_japan(country)
        gchina == is_greater_china(country)
        fda_rep == is_fda_reportable(rep_text)
    IN  IF us_terr /\ ~fda_rep /\ knowledge = WellUnderstood THEN 1
        ELSE IF knowledge = WellUnderstood /\ ((us_terr /\ fda_rep) \/ eu \/ canada) THEN 2
        ELSE IF (us_terr \/ eu \/ canada) /\ knowledge = NotWellUnderstood THEN 3
        ELSE IF ~us_terr /\ ~eu /\ ~canada /\ ~japan /\ ~gchina THEN 4
        ELSE IF japan THEN 5
        ELSE 0

classify_pe_workflow(row) ==
    LET country == Title(Strip(Str(row.CountryPE)))
        knowledge == row.PElevelKnowledgeClass
        rep_text == StrUpper(Str(row.Reportability))
        us_terr == is_us_territory(country)
        eu == is_eu(country)
        canada == is_canada(country)
        japan == is_japan(country)
        gchina == is_greater_china(country)
        fda_rep == is_fda_reportable(rep_text)
        is_ous_other == ~us_terr /\ ~eu /\ ~canada /\ ~japan /\ ~gchina
    IN  IF us_terr /\ ~fda_rep /\ knowledge = WellUnderstood THEN 1
        ELSE IF knowledge = WellUnderstood /\ ((us_terr /\ fda_rep) \/ eu \/ canada) THEN 2
        ELSE IF (us_terr \/ eu \/ canada) /\ knowledge = NotWellUnderstood THEN 3
        ELSE IF is_ous_other THEN 4
        ELSE IF japan \/ gchina THEN 5
        ELSE 0

(***************************************************************************)
(* Helpers over a table: a sequence of rows (records).                     *)
(***************************************************************************)
Rows(table) == {table[i] : i \in 1..Len(table)}

RECURSIVE Concat(_)
\* pd.concat(df_list, ignore_index=True)
Concat(tables) ==
    IF tables = <<>> THEN <<>> ELSE Head(tables) \o Concat(Tail(tables))

RECURSIVE SumCopies(_)
\* The number of spreadsheet rows a table stands for.
SumCopies(table) ==
    IF table = <<>> THEN 0 ELSE Head(table).copies + SumCopies(Tail(table))

\* temp_df["TeamFile"] = file.name
TagTeamFile(file) ==
    [i \in 1..Len(file.report1) |-> file.report1[i] @@ [TeamFile |-> file.name]]

\* STEP A: any keyword is a substring of str(Communication).
IsGFE(val) == \E k \in gfe_keywords : Contains(Str(val), k)

\* df.groupby("PE - PLI #")["RFR Codes"].nunique(): missing keys form no
\* group and missing codes are not counted.
pli_rfr_count(table) ==
    [p \in {r.PE_PLI : r \in Rows(table)} \ {NaN} |->
        Cardinality({r.RFRCodes : r \in {q \in Rows(table) : q.PE_PLI = p}} \ {NaN})]

\* df["RFR Codes"].value_counts().to_dict(): missing codes are not counted.
rfr_freq(table) ==
    [c \in {r.RFRCodes : r \in Rows(table)} \ {NaN} |->
        SumCopies(SelectSeq(table, LAMBDA r : r.RFRCodes = c))]

\* A cell of a numeric or boolean column: {v} holds v, {} is NaN.
Missing == {}
Value(v) == {v}

\* df.merge(pli_rfr_count, on="PE - PLI #", how="left"): a row whose key is
\* not in pli_rfr_count gets NaN.
MergePliCount(table) ==
    LET cnt == pli_rfr_count(table)
    IN  [i \in 1..Len(table) |->
            table[i] @@ [pli_num_distinct_rfr |->
                IF table[i].PE_PLI \in DOMAIN cnt
                THEN Value(cnt[table[i].PE_PLI]) ELSE Missing]]

\* The frequency from which a single code is common enough.
MinFrequency == 50

\* STEP B: a comparison with NaN is false.
classify_pli_level(row, freqs) ==
    IF \E n \in row.pli_num_distinct_rfr : n > 1
    THEN NotWellUnderstood
    ELSE LET freq == IF row.RFRCodes \in DOMAIN freqs THEN freqs[row.RFRCodes] ELSE 0
         IN  IF freq >= MinFrequency THEN WellUnderstood ELSE NotWellUnderstood

\* Variant: the event is Not Well Understood only when all its rows are.
pe_knowledge_all(group) ==
    IF \A r \in group : r.PLIlevelKnowledgeClass = NotWellUnderstood
    THEN NotWellUnderstood ELSE WellUnderstood

\* STEP C, the lambda applied to one group.
pe_knowledge(group) ==
    IF \E r \in group : r.PLIlevelKnowledgeClass = NotWellUnderstood
    THEN NotWellUnderstood ELSE WellUnderstood

\* Variant: all() in place of any().
pe_gfe_all(group) == Value(\A r \in group : r.IsGFE)

\* STEP F, any() applied to one group.
pe_gfe(group) == Value(\E r \in group : r.IsGFE)

\* df.groupby("Product Event ID"): the groups, by key.  Rows with a missing
\* key are in no group.
groupby_event(table) ==
    [e \in {r.ProductEventID : r \in Rows(table)} \ {NaN} |->
        {r \in Rows(table) : r.ProductEventID = e}]

\* .transform(f), given f of every group: every row gets the value of its
\* group, a row with a missing key the missing value.
transform(table, by_group, missing) ==
    [i \in 1..Len(table) |->
        IF table[i].ProductEventID \in DOMAIN by_group
        THEN by_group[table[i].ProductEventID] ELSE missing]

RECURSIVE DropDuplicates(_, _)
DropDuplicates(table, seen) ==
    IF table = <<>> THEN <<>>
    ELSE IF Head(table).ProductEventID \in seen
         THEN DropDuplicates(Tail(table), seen)
         ELSE <<[Head(table) EXCEPT !.copies = 1]>>
              \o DropDuplicates(Tail(table), seen \cup {Head(table).ProductEventID})

\* df.drop_duplicates(subset=["Product Event ID"]): the first row of every
\* key is kept, NaN being one key.
drop_duplicates(table) == DropDuplicates(table, {})

\* The rows of df_pe that fall in one summary group.
GroupRows(table, w, t, s) ==
    {r \in Rows(table) :
        r.PElevelWorkflow = w /\ r.TeamFile = t /\ r.SourceSystemPE = s}

\* The aggregation that line 189 leaves commented out: the non-missing
\* Product Event IDs of one group.
Distinct_Product_Events(table, w, t, s) ==
    Cardinality({r \in GroupRows(table, w, t, s) : r.ProductEventID # NaN})

\* df_pe.groupby(["PE level Workflow", "TeamFile", "Source System - PE"])
\*      .agg(GFE_Events=("PE level GFE", "sum")).reset_index()
\* A row with a missing group key is in no group; the sum skips NaN.  The
\* table is kept as the set of its rows.
summary(table) ==
    {[PElevelWorkflow |-> r.PElevelWorkflow,
      TeamFile |-> r.TeamFile,
      SourceSystemPE |-> r.SourceSystemPE,
      GFE_Events |->
          Cardinality({q \in GroupRows(table, r.PElevelWorkflow, r.TeamFile,
                                       r.SourceSystemPE) : q.PElevelGFE = Value(TRUE)})] :
        r \in {q \in Rows(table) : q.SourceSystemPE # NaN}}

RECURSIVE SumGFE(_)
SumGFE(rows) ==
    IF rows = {} THEN 0
    ELSE LET r == CHOOSE x \in rows : TRUE
         IN  r.GFE_Events + SumGFE(rows \ {r})

\* summary_pe.pivot_table(index="PE level Workflow", columns="Source System - PE",
\*                        values="GFE_Events", aggfunc="sum", fill_value=0)
pivot_table(rows) ==
    [c \in {r.PElevelWorkflow : r \in rows} \X {r.SourceSystemPE : r \in rows} |->
        SumGFE({r \in rows : r.PElevelWorkflow = c[1] /\ r.SourceSystemPE = c[2]})]

(***************************************************************************)
(* The run.                                                                *)
(***************************************************************************)
VARIABLES
    uploaded_files,  \* what st.file_uploader returned
    pc,              \* the statement the run is at
    next_file,       \* position of the for loop in uploaded_files
    df_list,         \* the 'Report 1' tables read so far
    df,              \* the combined table
    df_pe,           \* one row per Product Event ID
    summary_pe,      \* the event summary
    pivot_df,        \* the pivot
    warnings,        \* st.warning calls: the files skipped
    errors,          \* st.error calls
    shown            \* the tables displayed or offered for download

vars == <<uploaded_files, pc, next_file, df_list, df, df_pe, summary_pe, pivot_df,
          warnings, errors, shown>>

FileNames == <<"teamA.xlsx", "teamB.xlsx", "teamC.xlsx", "teamD.xlsx">>

RECURSIVE SumSeq(_)
SumSeq(s) == IF s = <<>> THEN 0 ELSE Head(s) + SumSeq(Tail(s))

\* The number of rows of each uploaded file; 0 is a file without a
\* 'Report 1' sheet.
Shapes ==
    {s \in UNION {[1..n -> 0..MaxRows] : n \in 0..MaxFiles} : SumSeq(s) <= MaxRows}

MakeFiles(shape, rows) ==
    [k \in 1..Len(shape) |->
        [name |-> FileNames[k],
         has_report1 |-> shape[k] > 0,
         report1 |-> SubSeq(rows, SumSeq(SubSeq(shape, 1, k - 1)) + 1,
                                  SumSeq(SubSeq(shape, 1, k)))]]

Uploads(rowset) ==
    UNION {{MakeFiles(s, rows) : rows \in [1..SumSeq(s) -> rowset]} : s \in Shapes}

InitWith(uploads) ==
    /\ uploaded_files \in uploads
    /\ pc = "start"
    /\ next_file = 0
    /\ df_list = <<>>
    /\ df = <<>>
    /\ df_pe = <<>>
    /\ summary_pe = {}
    /\ pivot_df = <<>>
    /\ warnings = <<>>
    /\ errors = <<>>
    /\ shown = <<>>

\* if uploaded_files: is false and the script ends.
NoUpload ==
    /\ pc = "start"
    /\ uploaded_files = <<>>
    /\ pc' = "idle"
    /\ UNCHANGED <<uploaded_files, next_file, df_list, df, df_pe, summary_pe, pivot_df,
                   warnings, errors, shown>>

BeginLoop ==
    /\ pc = "start"
    /\ uploaded_files # <<>>
    /\ df_list' = <<>>
    /\ next_file' = 1
    /\ pc' = "loop"
    /\ UNCHANGED <<uploaded_files, df, df_pe, summary_pe, pivot_df, warnings, errors, shown>>

\* Variant: a file without 'Report 1' ends the run.
SkipFile_stops ==
    /\ pc = "loop"
    /\ next_file <= Len(uploaded_files)
    /\ ~uploaded_files[next_file].has_report1
    /\ warnings' = Append(warnings, uploaded_files[next_file].name)
    /\ errors' = Append(errors, "No valid 'Report 1' data found across files.")
    /\ pc' = "stopped"
    /\ UNCHANGED <<uploaded_files, next_file, df_list, df, df_pe, summary_pe, pivot_df, shown>>

\* st.warning(...); continue
SkipFile ==
    /\ pc = "loop"
    /\ next_file <= Len(uploaded_files)
    /\ ~uploaded_files[next_file].has_report1
    /\ warnings' = Append(warnings, uploaded_files[next_file].name)
    /\ next_file' = next_file + 1
    /\ UNCHANGED <<uploaded_files, pc, df_list, df, df_pe, summary_pe, pivot_df, errors, shown>>

ReadFile ==
    /\ pc = "loop"
    /\ next_file <= Len(uploaded_files)
    /\ uploaded_files[next_file].has_report1
    /\ df_list' = Append(df_list, TagTeamFile(uploaded_files[next_file]))
    /\ next_file' = next_file + 1
    /\ UNCHANGED <<uploaded_files, pc, df, df_pe, summary_pe, pivot_df, warnings, errors, shown>>

\* st.error(...); st.stop()
NoValidData ==
    /\ pc = "loop"
    /\ next_file > Len(uploaded_files)
    /\ df_list = <<>>
    /\ errors' = Append(errors, "No valid 'Report 1' data found across files.")
    /\ pc' = "stopped"
    /\ UNCHANGED <<uploaded_files, next_file, df_list, df, df_pe, summary_pe, pivot_df,
                   warnings, shown>>

Combine ==
    /\ pc = "loop"
    /\ next_file > Len(uploaded_files)
    /\ df_list # <<>>
    /\ df' = Concat(df_list)
    /\ shown' = Append(shown, "raw data")
    /\ pc' = "A"
    /\ UNCHANGED <<uploaded_files, next_file, df_list, df_pe, summary_pe, pivot_df,
                   warnings, errors>>

StepA ==
    /\ pc = "A"
    /\ df' = [k \in 1..Len(df) |-> df[k] @@ [IsGFE |-> IsGFE(df[k].Communication)]]
    /\ pc' = "B"
    /\ UNCHANGED <<uploaded_files, next_file, df_list, df_pe, summary_pe, pivot_df,
                   warnings, errors, shown>>

StepB ==
    /\ pc = "B"
    /\ LET merged == MergePliCount(df)
           freqs == rfr_freq(df)
       IN  df' = [k \in 1..Len(merged) |->
                    merged[k] @@ [PLIlevelKnowledgeClass |->
                                     classify_pli_level(merged[k], freqs)]]
    /\ pc' = "C"
    /\ UNCHANGED <<uploaded_files, next_file, df_list, df_pe, summary_pe, pivot_df,
                   warnings, errors, shown>>

StepC ==
    /\ pc = "C"
    /\ LET groups == groupby_event(df)
           col == transform(df, [e \in DOMAIN groups |-> pe_knowledge(groups[e])], NaN)
       IN  df' = [k \in 1..Len(df) |-> df[k] @@ [PElevelKnowledgeClass |-> col[k]]]
    /\ pc' = "E"
    /\ UNCHANGED <<uploaded_files, next_file, df_list, df_pe, summary_pe, pivot_df,
                   warnings, errors, shown>>

StepE ==
    /\ pc = "E"
    /\ df' = [k \in 1..Len(df) |-> df[k] @@ [PElevelWorkflow |-> classify_pe_workflow(df[k])]]
    /\ pc' = "F"
    /\ UNCHANGED <<uploaded_files, next_file, df_list, df_pe, summary_pe, pivot_df,
                   warnings, errors, shown>>

StepF ==
    /\ pc = "F"
    /\ LET groups == groupby_event(df)
           col == transform(df, [e \in DOMAIN groups |-> pe_gfe(groups[e])], Missing)
       IN  df' = [k \in 1..Len(df) |-> df[k] @@ [PElevelGFE |-> col[k]]]
    /\ pc' = "G"
    /\ UNCHANGED <<uploaded_files, next_file, df_list, df_pe, summary_pe, pivot_df,
                   warnings, errors, shown>>

\* Variant: the duplicates are dropped from df itself.
StepG_inplace ==
    /\ pc = "G"
    /\ df' = drop_duplicates(df)
    /\ df_pe' = df'
    /\ summary_pe' = summary(df_pe')
    /\ shown' = Append(shown, "summary_pe")
    /\ pc' = "H"
    /\ UNCHANGED <<uploaded_files, next_file, df_list, pivot_df, warnings, errors>>

\* df_pe, summary_pe and its display
StepG ==
    /\ pc = "G"
    /\ df_pe' = drop_duplicates(df)
    /\ summary_pe' = summary(df_pe')
    /\ shown' = Append(shown, "summary_pe")
    /\ pc' = "H"
    /\ UNCHANGED <<uploaded_files, next_file, df_list, df, pivot_df, warnings, errors>>

StepH ==
    /\ pc = "H"
    /\ pivot_df' = pivot_table(summary_pe)
    /\ shown' = shown \o <<"pivot_df", "pivot_gfe_events.csv", "df", "row_level_data.csv">>
    /\ pc' = "done"
    /\ UNCHANGED <<uploaded_files, next_file, df_list, df, df_pe, summary_pe,
                   warnings, errors>>

Next ==
    \/ NoUpload
    \/ BeginLoop
    \/ SkipFile
    \/ ReadFile
    \/ NoValidData
    \/ Combine
    \/ StepA
    \/ StepB
    \/ StepC
    \/ StepE
    \/ StepF
    \/ StepG
    \/ StepH

(***************************************************************************)
(* Inputs.  One row of a 'Report 1' sheet, standing for `copies` equal     *)
(* consecutive rows.                                                       *)
(***************************************************************************)
Row(pe, pli, rfr, copies, comm, country, rep, src) ==
    [ProductEventID |-> pe, PE_PLI |-> pli, RFRCodes |-> rfr, copies |-> copies,
     Communication |-> comm, CountryPE |-> country, Reportability |-> rep,
     SourceSystemPE |-> src]

\* Country cells, by the region they are meant to be in.
RawUS == { <<"U","n","i","t","e","d"," ","S","t","a","t","e","s">>, <<"u","n","i","t","e","d"," ","s","t","a","t","e","s">>, <<" ","U","N","I","T","E","D"," ","S","T","A","T","E","S"," ">> }
RawEU == { <<"f","r","a","n","c","e">>, <<"G","E","R","M","A","N","Y">>, <<"c","z","e","c","h"," ","r","e","p","u","b","l","i","c">> }
RawCanada == { <<"C","a","n","a","d","a">>, <<"c","a","n","a","d","a"," ">> }
RawJapan == { <<"J","a","p","a","n">>, <<"j","a","p","a","n">> }
RawGreaterChina == { <<"h","o","n","g"," ","k","o","n","g">>, <<"V","I","E","T"," ","N","A","M">>, <<"T","a","i","w","a","n">> }
\* A blank-only cell, the default of a missing column, and an empty cell.
RawNoCountry == { <<" "," ">>, <<>>, NaNText }
RawOther == { <<"U","S","A">>, <<"V","i","e","t","n","a","m">>, <<"B","r","a","z","i","l">> } \cup RawNoCountry
RawCountries ==
    RawUS \cup RawEU \cup RawCanada \cup RawJapan \cup RawGreaterChina \cup RawOther

\* Reportability cells that do, and do not, name the FDA malfunction report.
RawReportable == {
    <<"U","S"," ","F","D","A"," ","-"," ","M","D","R",":"," ","M","a","l","f","u","n","c","t","i","o","n"," ","-"," ","R","e","p","o","r","t","a","b","l","e">>,
    <<"E","U",":"," ","N","o","t"," ","R","e","p","o","r","t","a","b","l","e",";"," ","u","s"," ","f","d","a"," ","-"," ","m","d","r",":"," ","m","a","l","f","u","n","c","t","i","o","n"," ","-"," ","r","e","p","o","r","t","a","b","l","e">> }
RawNotReportable == { <<"U","S"," ","F","D","A"," ","-"," ","M","D","R",":"," ","M","a","l","f","u","n","c","t","i","o","n"," ","-"," ","N","o","t"," ","R","e","p","o","r","t","a","b","l","e">>, NaNText }

\* Communication cells that are, and are not, GFE follow-ups.
RawGFE == { <<"F","o","l","l","o","w"," ","U","p"," ","f","o","r"," ","I","n","f","o","r","m","a","t","i","o","n">>, <<"I","n","i","t","i","a","l"," ","c","a","l","l",";"," ","F","o","l","l","o","w","-","u","p"," ","f","o","r"," ","P","r","o","d","/","I","n","f","o"," ","s","e","n","t">> }
RawNotGFE == { <<"f","o","l","l","o","w"," ","u","p"," ","f","o","r"," ","i","n","f","o","r","m","a","t","i","o","n">>, <<"C","o","m","p","l","a","i","n","t"," ","r","e","c","e","i","v","e","d">>, NaNText }

\* Escalation: events of one or more rows, each row well understood (a code
\* seen 50 times) or not (a code seen once), GFE or not.
RowsEscalation ==
    {Row(pe, k[1], k[2], k[3], comm, <<"U","n","i","t","e","d"," ","S","t","a","t","e","s">>, NaNText, "S1") :
        pe \in {"E1", "E2", NaN},
        k \in {<<"P1", "R1", 50>>, <<"P2", "R2", 1>>},
        comm \in {<<"F","o","l","l","o","w"," ","U","p"," ","f","o","r"," ","I","n","f","o","r","m","a","t","i","o","n">>, <<"C","o","m","p","l","a","i","n","t"," ","r","e","c","e","i","v","e","d">>}}

\* Row-level knowledge: line items, codes and frequencies around 50.
RowsKnowledge ==
    {Row("E1", pli, rfr, copies, NaNText, <<"U","n","i","t","e","d"," ","S","t","a","t","e","s">>, NaNText, "S1") :
        pli \in {"P1", "P2", NaN}, rfr \in {"R1", "R2", NaN}, copies \in {1, 50}}

\* Workflow: every country and reportability cell, under each knowledge
\* class the escalation can leave on a row.
RowsWorkflow ==
    {Row(k[1], "P1", "R1", k[2], NaNText, country, rep, "S1") :
        k \in {<<"E1", 50>>, <<"E1", 1>>, <<NaN, 50>>},
        country \in RawCountries,
        rep \in RawReportable \cup RawNotReportable}

\* Summary: events whose rows differ in country and source system.
RowsSummary ==
    {Row(pe, "P1", "R1", 50, comm, country, NaNText, src) :
        pe \in {"E1", "E2", NaN},
        comm \in {<<"F","o","l","l","o","w"," ","U","p"," ","f","o","r"," ","I","n","f","o","r","m","a","t","i","o","n">>},
        country \in {<<"U","n","i","t","e","d"," ","S","t","a","t","e","s">>, <<"J","a","p","a","n">>},
        src \in {"S1", NaN}}

\* One single-row upload, alone or after a file without 'Report 1'.
SingleRowUploads(rowset) ==
    UNION {{MakeFiles(s, <<r>>) : r \in rowset} : s \in {<<>>, <<0>>, <<1>>, <<0, 1>>}}

Init == InitWith(Uploads(RowsEscalation))
InitKnowledge == InitWith(Uploads(RowsKnowledge))
InitWorkflow == InitWith(SingleRowUploads(RowsWorkflow))
InitSummary == InitWith(Uploads(RowsSummary))

Spec == Init /\ [][Next]_vars
SpecKnowledge == InitKnowledge /\ [][Next]_vars
SpecWorkflow == InitWorkflow /\ [][Next]_vars
SpecSummary == InitSummary /\ [][Next]_vars

(***************************************************************************)
(* Properties.                                                             *)
(***************************************************************************)
HasColumn(table, name) == table # <<>> /\ \A r \in Rows(table) : name \in DOMAIN r

\* The Product Event IDs of a table, and the rows of one of them.
EventKeys(table) == {r.ProductEventID : r \in Rows(table)} \ {NaN}
EventGroup(table, e) == {r \in Rows(table) : r.ProductEventID = e}

\* The rule list of the workflow resolver, over the region a country cell is
\* meant to be in.
ExpectedWorkflow(r) ==
    LET us == r.CountryPE \in RawUS
        eu == r.CountryPE \in RawEU
        canada == r.CountryPE \in RawCanada
        japan == r.CountryPE \in RawJapan
        gchina == r.CountryPE \in RawGreaterChina
        fda == r.Reportability \in RawReportable
        wu == r.PElevelKnowledgeClass = WellUnderstood
        nwu == r.PElevelKnowledgeClass = NotWellUnderstood
    IN  IF us /\ ~fda /\ wu THEN 1
        ELSE IF wu /\ ((us /\ fda) \/ eu \/ canada) THEN 2
        ELSE IF (us \/ eu \/ canada) /\ nwu THEN 3
        ELSE IF ~(us \/ eu \/ canada \/ japan \/ gchina) THEN 4
        ELSE IF japan \/ gchina THEN 5
        ELSE 0

\* C1: every record gets exactly one workflow in 0..5, the first matching
\* rule of the list 1 (US, not FDA-reportable, Well Understood), 2 (Well
\* Understood and US FDA-reportable, EU or Canada), 3 (US, EU or Canada and
\* Not Well Understood), 4 (none of the five regions), 5 (Japan or Greater
\* China), 0 otherwise; 4 and 5 whatever the knowledge class and the text.
C1_WorkflowFirstMatch ==
    HasColumn(df, "PElevelWorkflow") =>
        \A r \in Rows(df) :
            /\ r.PElevelWorkflow \in 0..5
            /\ r.PElevelWorkflow = ExpectedWorkflow(r)
            /\ r.CountryPE \in RawJapan \cup RawGreaterChina => r.PElevelWorkflow = 5
            /\ r.CountryPE \in RawOther => r.PElevelWorkflow = 4

\* A Well Understood, FDA-reportable US record fell through rule 1 to rule 2.
C1_Witness ==
    /\ pc = "done"
    /\ \E r \in Rows(df) :
        /\ r.CountryPE = <<" ","U","N","I","T","E","D"," ","S","T","A","T","E","S"," ">>
        /\ r.Reportability \in RawReportable
        /\ r.PElevelKnowledgeClass = WellUnderstood
        /\ r.PElevelWorkflow = 2

\* C2: a row is Not Well Understood when its line-item group holds more than
\* one distinct rfr_code, a missing code counting as a value of its own;
\* otherwise it is Well Understood iff its code occurs at least 50 times in
\* the whole combined dataset.  (Stated for the rows that have a line-item
\* key, and in the second case for the rows that have a code.)
C2_RowKnowledgeNullDistinct ==
    HasColumn(df, "PLIlevelKnowledgeClass") =>
        \A r \in {q \in Rows(df) : q.PE_PLI # NaN} :
            LET group == {q \in Rows(df) : q.PE_PLI = r.PE_PLI}
                distinct == Cardinality({q.RFRCodes : q \in group})
                occurrences ==
                    SumCopies(SelectSeq(df, LAMBDA q : q.RFRCodes = r.RFRCodes))
            IN  IF distinct > 1
                THEN r.PLIlevelKnowledgeClass = NotWellUnderstood
                ELSE r.RFRCodes # NaN =>
                        (r.PLIlevelKnowledgeClass = WellUnderstood <=> occurrences >= 50)

\* C3: within every Product Event, one Not Well Understood row makes every
\* row's event-level class Not Well Understood, and an event of Well
\* Understood rows only is Well Understood on every row; so the rows of an
\* event carry one event-level class.
C3_KnowledgeEscalation ==
    HasColumn(df, "PElevelKnowledgeClass") =>
        \A e \in EventKeys(df) :
            LET g == EventGroup(df, e)
            IN  /\ (\E r \in g : r.PLIlevelKnowledgeClass = NotWellUnderstood)
                     => \A r \in g : r.PElevelKnowledgeClass = NotWellUnderstood
                /\ (\A r \in g : r.PLIlevelKnowledgeClass = WellUnderstood)
                     => \A r \in g : r.PElevelKnowledgeClass = WellUnderstood
                /\ \A r, q \in g : r.PElevelKnowledgeClass = q.PElevelKnowledgeClass

\* An event of one Well Understood and one Not Well Understood row.
C3_Witness ==
    /\ pc = "done"
    /\ \E e \in EventKeys(df) :
        \E r, q \in EventGroup(df, e) :
            /\ r.PLIlevelKnowledgeClass = WellUnderstood
            /\ q.PLIlevelKnowledgeClass = NotWellUnderstood
            /\ r.PElevelKnowledgeClass = NotWellUnderstood
            /\ q.PElevelKnowledgeClass = NotWellUnderstood

\* C4: on every row of a Product Event the event-level GFE flag is the OR of
\* the row-level flags of the event's rows; a "Follow Up for Information"
\* row is a GFE row.
C4_GFEEscalation ==
    HasColumn(df, "PElevelGFE") =>
        /\ \A r \in Rows(df) :
            r.Communication = <<"F","o","l","l","o","w"," ","U","p"," ","f","o","r"," ","I","n","f","o","r","m","a","t","i","o","n">> => r.IsGFE
        /\ \A e \in EventKeys(df) :
            \A r \in EventGroup(df, e) :
                r.PElevelGFE = Value(\E q \in EventGroup(df, e) : q.IsGFE)

\* An event whose only GFE row marks its other row too.
C4_Witness ==
    /\ pc = "done"
    /\ \E e \in EventKeys(df) :
        \E r, q \in EventGroup(df, e) :
            /\ r.IsGFE /\ ~q.IsGFE
            /\ r.Communication = <<"F","o","l","l","o","w"," ","U","p"," ","f","o","r"," ","I","n","f","o","r","m","a","t","i","o","n">>
            /\ q.PElevelGFE = Value(TRUE)

RECURSIVE SumDistinctEvents(_, _)
SumDistinctEvents(table, groups) ==
    IF groups = {} THEN 0
    ELSE LET g == CHOOSE x \in groups : TRUE
         IN  Distinct_Product_Events(table, g.PElevelWorkflow, g.TeamFile, g.SourceSystemPE)
             + SumDistinctEvents(table, groups \ {g})

\* C5: the Distinct_Product_Events of the rows of the event summary add up
\* to the number of distinct Product Event IDs of the input.
C5_SummaryCountConservation ==
    pc \in {"H", "done"} =>
        SumDistinctEvents(df_pe, summary_pe) = Cardinality(EventKeys(df))

\* C6: the rows of one Product Event carry the same workflow, event-level
\* knowledge class and event-level GFE flag, whichever row is kept.
C6_UniformPerEvent ==
    HasColumn(df, "PElevelGFE") =>
        \A e \in EventKeys(df) :
            \A r, q \in EventGroup(df, e) :
                /\ r.PElevelWorkflow = q.PElevelWorkflow
                /\ r.PElevelKnowledgeClass = q.PElevelKnowledgeClass
                /\ r.PElevelGFE = q.PElevelGFE

\* The outcome of ingestion.
Terminal == pc \in {"idle", "stopped", "done"}
Usable == SelectSeq(uploaded_files, LAMBDA f : f.has_report1)
Unusable == SelectSeq(uploaded_files, LAMBDA f : ~f.has_report1)
NoOutput ==
    shown = <<>> /\ df = <<>> /\ df_pe = <<>> /\ summary_pe = {} /\ pivot_df = <<>>
AllOutputs ==
    /\ {"raw data", "summary_pe", "pivot_df", "df"} \subseteq {shown[k] : k \in 1..Len(shown)}
    /\ HasColumn(df, "PElevelWorkflow")
    /\ HasColumn(df, "PElevelGFE")
    /\ df_pe # <<>>
\* The combined table holds the rows of the usable files and no others.
CombinedFromUsable ==
    /\ Len(df) = SumSeq([k \in 1..Len(Usable) |-> Len(Usable[k].report1)])
    /\ \A k \in 1..Len(Usable) : \A j \in 1..Len(Usable[k].report1) :
        \E r \in Rows(df) :
            /\ r.TeamFile = Usable[k].name
            /\ \A c \in DOMAIN Usable[k].report1[j] : r[c] = Usable[k].report1[j][c]
SkippedWithWarning ==
    warnings = [k \in 1..Len(Unusable) |-> Unusable[k].name]
\* A run that has not ended is at a statement that can execute.
Proceeds ==
    \/ Terminal
    \/ pc \in {"start", "A", "B", "C", "E", "F", "G", "H"}
    \/ pc = "loop" /\ next_file \in 1..(Len(uploaded_files) + 1)

\* C7 as stated: a source without 'Report 1' is skipped with a warning and
\* the others are still combined and processed; when no source yields a
\* table the run ends with the 'no valid data' error and no output; in every
\* other case the run goes on to produce the outputs.
C7_IngestionOutcome ==
    /\ Proceeds
    /\ Terminal =>
        /\ SkippedWithWarning
        /\ IF Usable = <<>>
           THEN pc = "stopped" /\ errors # <<>> /\ NoOutput
           ELSE pc = "done" /\ errors = <<>> /\ AllOutputs /\ CombinedFromUsable

\* C7 amended: as C7, but a run with no uploaded source at all ends silently,
\* with neither the error nor any output.
C7_IngestionOutcomeAmended ==
    /\ Proceeds
    /\ Terminal =>
        /\ SkippedWithWarning
        /\ IF uploaded_files = <<>>
           THEN pc = "idle" /\ errors = <<>> /\ NoOutput
           ELSE IF Usable = <<>>
           THEN pc = "stopped" /\ errors # <<>> /\ NoOutput
           ELSE pc = "done" /\ errors = <<>> /\ AllOutputs /\ CombinedFromUsable

\* One source was skipped with a warning and the other one was processed.
C7_Witness ==
    /\ pc = "done"
    /\ warnings # <<>>
    /\ Usable # <<>>
    /\ AllOutputs

\* C8 as stated: no record ever gets workflow 0.
C8_WorkflowNeverZero ==
    HasColumn(df, "PElevelWorkflow") =>
        \A r \in Rows(df) : r.PElevelWorkflow \in 1..5

\* C8 amended: every record that has a Product Event ID gets a workflow in
\* 1..5; workflow 0 is produced exactly for the records without a Product
\* Event ID (their event-level knowledge class is missing) whose country is
\* United States, in the EU set or Canada.
C8_WorkflowZeroOnlyWithoutEvent ==
    HasColumn(df, "PElevelWorkflow") =>
        \A r \in Rows(df) :
            /\ r.ProductEventID # NaN => r.PElevelWorkflow \in 1..5
            /\ r.PElevelWorkflow = 0 <=>
                  /\ r.ProductEventID = NaN
                  /\ r.CountryPE \in RawUS \cup RawEU \cup RawCanada

\* A Canadian record without a Product Event ID fell through to 0.
C8_Witness ==
    /\ pc = "done"
    /\ \E r \in Rows(df) :
        /\ r.ProductEventID = NaN
        /\ r.CountryPE \in RawCanada
        /\ r.PElevelKnowledgeClass = NaN
        /\ r.PElevelWorkflow = 0

\* C9: a record whose country is missing, null or empty gets workflow 4
\* under every knowledge class and every reportability text.
C9_NoCountryIsWorkflow4 ==
    HasColumn(df, "PElevelWorkflow") =>
        \A r \in Rows(df) : r.CountryPE \in RawNoCountry => r.PElevelWorkflow = 4

\* A null country on a Well Understood, FDA-reportable record.
C9_Witness ==
    /\ pc = "done"
    /\ \E r \in Rows(df) :
        /\ r.CountryPE = NaNText
        /\ r.PElevelKnowledgeClass = WellUnderstood
        /\ r.Reportability \in RawReportable
        /\ r.PElevelWorkflow = 4

\* The columns a row has after the n-th stage of the run, in the order the
\* run adds them.
RawColumns ==
    {"ProductEventID", "PE_PLI", "RFRCodes", "copies", "Communication", "CountryPE",
     "Reportability", "SourceSystemPE"}
StageColumns ==
    << {"TeamFile"}, {"IsGFE"}, {"pli_num_distinct_rfr", "PLIlevelKnowledgeClass"},
       {"PElevelKnowledgeClass"}, {"PElevelWorkflow"}, {"PElevelGFE"} >>
ColumnsAfter(n) == RawColumns \cup UNION {StageColumns[k] : k \in 1..n}
AtStage(table, n) == table # <<>> /\ \A r \in Rows(table) : DOMAIN r = ColumnsAfter(n)
Complete(table) == AtStage(table, Len(StageColumns))

\* C10 as stated: both escalations come before the workflow, so a record that
\* has its workflow has every derived field and none is added afterwards.
C10_NothingAddedAfterWorkflow ==
    HasColumn(df, "PElevelWorkflow") =>
        HasColumn(df, "PElevelKnowledgeClass") /\ HasColumn(df, "PElevelGFE")

\* One step of the run, in the order the stages do execute.
C10_Step ==
    /\ df' # df =>
        \/ df = <<>> /\ AtStage(df', 1)
        \/ \E n \in 1..(Len(StageColumns) - 1) :
            /\ AtStage(df, n)
            /\ AtStage(df', n + 1)
            /\ Len(df') = Len(df)
            /\ \A k \in 1..Len(df) : \A c \in DOMAIN df[k] : df'[k][c] = df[k][c]
    /\ Complete(df) => df' = df
    /\ (df_pe' # df_pe \/ summary_pe' # summary_pe \/ pivot_df' # pivot_df)
          => Complete(df) /\ df' = df
    /\ pc' = "done" => Complete(df') /\ df_pe' # <<>>

\* C10 amended: the stages run in the order ingest, flag GFE, classify
\* knowledge (row), escalate the knowledge class to the event, resolve the
\* workflow, escalate GFE to the event, summarize; each adds its own fields
\* and leaves the others alone; once the event-level GFE flag is assigned no
\* field of any record is written again, and the summaries are built only
\* from the complete records.
C10_StageOrder == [][C10_Step]_vars

\* The run ended with complete records and a summary built from them.
C10_Witness ==
    /\ pc = "done"
    /\ Complete(df)
    /\ summary_pe # {}
    /\ Len(df) > Len(df_pe)

=============================================================================
